---- MODULE Spec2Model ----
(***************************************************************************)
(* A model of the chat hook (react-core/src/hooks/use-chat.ts) and of the  *)
(* entry point registry of the CopilotProvider (function-call dispatch and *)
(* schema compilation).                                                    *)
(*                                                                         *)
(* useChat is a React hook.  messages and isLoading are useState values:   *)
(* setMessages / setIsLoading record the next value, and the functions     *)
(* append, reload and stop that a caller holds are closures of one render, *)
(* which read the values that render saw.  The model keeps both: the       *)
(* recorded state (messages, isLoading) and the values of the last render  *)
(* (rendered).  abortControllerRef is a useRef and is read live.           *)
(***************************************************************************)
EXTENDS Integers, Sequences, FiniteSets, TLC

\* ---------------------------------------------------------------- bounds
MaxCycles == 2
MaxEvents == 3

\* ------------------------------------------------------------ data model
\* an optional value (a field that may be undefined) is a sequence of length <= 1
undefined == <<>>
Some(x) == <<x>>

\* content frames: each payload is a piece of text (a sequence of characters);
\* the k-th content frame of a stream carries the k-th piece, the pieces repeating
Payloads == <<<<"H", "e">>, <<"l", "l", "o">>>>
payload(k) == Payloads[((k - 1) % Len(Payloads)) + 1]

\* the messages a caller appends
UserMessages ==
  {[role |-> "user", content |-> <<"h", "i">>, function_call |-> undefined]}

\* options.initialMessages || []
initialMessages ==
  <<[role |-> "system", content |-> <<"s">>, function_call |-> undefined]>>

\* ------------------------------------------------------- JavaScript values
\* a value is a record tagged with its type; an object holds its own properties
\* as a sequence of key / value pairs in insertion order (keys are distinct)
jsUndefined == [t |-> "undefined"]
jsNull == [t |-> "null"]
jsString(s) == [t |-> "string", v |-> s]
jsNumber(n) == [t |-> "number", v |-> n]
jsObject(properties) == [t |-> "object", v |-> properties]
emptyArray == [t |-> "array", v |-> <<>>]
builtin(name) == [t |-> "function", v |-> name]

\* some of the members every object inherits from Object.prototype, and some of
\* those an array inherits from Array.prototype
ObjectPrototype == {"constructor", "toString", "valueOf", "hasOwnProperty"}
ArrayPrototype == {"filter", "sort", "keys", "values"}

hasOwn(properties, key) == \E i \in DOMAIN properties : properties[i].key = key

ownValue(properties, key) ==
  properties[CHOOSE i \in DOMAIN properties : properties[i].key = key].value

\* an assignment that moves a key it already has to the end
setProperty_last(properties, key, value) ==
  LET others(p) == p.key # key
  IN Append(SelectSeq(properties, others), [key |-> key, value |-> value])

\* properties[key] = value: an own key keeps its place, a new key goes last
setProperty(properties, key, value) ==
  IF hasOwn(properties, key)
    THEN [i \in DOMAIN properties |->
            IF properties[i].key = key THEN [key |-> key, value |-> value]
                                       ELSE properties[i]]
    ELSE Append(properties, [key |-> key, value |-> value])

\* delete properties[key]
deleteProperty(properties, key) ==
  LET kept(p) == p.key # key IN SelectSeq(properties, kept)

\* Object.values(object)
ObjectValues(properties) == [i \in DOMAIN properties |-> properties[i].value]

\* value[name] for an object, an (empty) array or a number: an own property,
\* else what the prototype chain has under that name, else undefined
getProperty(value, name) ==
  CASE value.t = "object" ->
         IF hasOwn(value.v, name) THEN ownValue(value.v, name)
         ELSE IF name \in ObjectPrototype THEN builtin(name)
         ELSE jsUndefined
    [] value.t = "array" ->
         IF name = "length" THEN jsNumber(Len(value.v))
         ELSE IF name \in ArrayPrototype \cup ObjectPrototype THEN builtin(name)
         ELSE jsUndefined
    [] value.t = "number" ->
         IF name \in ObjectPrototype THEN builtin(name) ELSE jsUndefined

\* `if (value)`
truthy(value) == value \notin {jsUndefined, jsNull, jsString("")}

\* ------------------------------------------------------------------ JSON
\* a JSON text is a sequence of tokens: punctuation, string literals, literals
P(c) == [k |-> "punctuation", v |-> c]
S(s) == [k |-> "string", v |-> s]
L(l) == [k |-> "literal", v |-> l]
N(n) == [k |-> "number", v |-> n]

\* the text of an object whose members are the key / string pairs of `members`
RECURSIVE membersText(_)
membersText(members) ==
  IF members = <<>> THEN <<>>
  ELSE <<S(members[1][1]), P(":"), S(members[1][2])>>
       \o (IF Len(members) = 1 THEN <<>> ELSE <<P(",")>>)
       \o membersText(Tail(members))

objectText(members) == <<P("{")>> \o membersText(members) \o <<P("}")>>

\* JSON.parse of a scalar token
scalar(token) ==
  IF token.k = "string" THEN [ok |-> TRUE, value |-> jsString(token.v)]
  ELSE IF token.k = "number" THEN [ok |-> TRUE, value |-> jsNumber(token.v)]
  ELSE IF token = L("null") THEN [ok |-> TRUE, value |-> jsNull]
  ELSE [ok |-> FALSE, value |-> jsUndefined]

\* JSON.parse of the members between the braces of an object, added to
\* `properties`: key : scalar, separated by commas; a repeated key keeps the
\* last value
RECURSIVE parseMembers(_, _)
parseMembers(tokens, properties) ==
  IF Len(tokens) < 3 \/ tokens[1].k # "string" \/ tokens[2] # P(":")
       \/ ~scalar(tokens[3]).ok
    THEN [ok |-> FALSE, value |-> jsUndefined]
  ELSE LET next == setProperty(properties, tokens[1].v, scalar(tokens[3]).value)
       IN IF Len(tokens) = 3 THEN [ok |-> TRUE, value |-> jsObject(next)]
          ELSE IF tokens[4] # P(",") THEN [ok |-> FALSE, value |-> jsUndefined]
          ELSE parseMembers(SubSeq(tokens, 5, Len(tokens)), next)

\* JSON.parse(text), for texts of scalars and of objects of scalars;
\* ok = FALSE is a SyntaxError
JSONparse(text) ==
  IF Len(text) = 1 THEN scalar(text[1])
  ELSE IF Len(text) >= 2 /\ text[1] = P("{") /\ text[Len(text)] = P("}")
    THEN IF Len(text) = 2 THEN [ok |-> TRUE, value |-> jsObject(<<>>)]
         ELSE parseMembers(SubSeq(text, 2, Len(text) - 1), <<>>)
  ELSE [ok |-> FALSE, value |-> jsUndefined]

\* JSON.stringify(value), for scalars and objects of strings
JSONstringify(value) ==
  CASE value.t = "string" -> <<S(value.v)>>
    [] value.t = "null" -> <<L("null")>>
    [] value.t = "number" -> <<N(value.v)>>
    [] value.t = "object" ->
         objectText([i \in DOMAIN value.v |-> <<value.v[i].key, value.v[i].value.v>>])

\* ---------------------------------------------------- entry points, calls
\* an argument annotation: name, required and its metadata (type, description)
Annotation(name, type, required) ==
  [name |-> name, type |-> type, description |-> "the " \o name,
   required |-> required]

\* the AnnotatedFunctions the application registers; two of them have the same
\* name; the annotation names of one function are distinct
AnnotatedFunctions ==
  {[name |-> "getWeather", description |-> "weather of a city",
    argumentAnnotations |-> <<Annotation("city", "string", TRUE),
                              Annotation("units", "string", FALSE)>>,
    implementation |-> "getWeather#1"],
   [name |-> "getWeather", description |-> "weather, units first",
    argumentAnnotations |-> <<Annotation("units", "string", FALSE),
                              Annotation("city", "string", TRUE)>>,
    implementation |-> "getWeather#2"],
   [name |-> "makeList", description |-> "a list of items",
    argumentAnnotations |-> <<Annotation("length", "number", FALSE),
                              Annotation("title", "string", TRUE)>>,
    implementation |-> "makeList#1"]}

\* the ids under which components register their entry point
Ids == {"id1", "id2"}

\* the arguments texts of a function call: none, objects in either key order,
\* with a key missing, empty, a text cut short, null and a number
ArgumentTexts ==
  {<<>>,
   objectText(<<<<"city", "Paris">>, <<"units", "celsius">>>>),
   objectText(<<<<"units", "celsius">>, <<"city", "Paris">>>>),
   objectText(<<<<"city", "Paris">>>>),
   objectText(<<>>),
   <<P("{"), S("city"), P(":")>>,
   <<L("null")>>,
   <<N(7)>>}

\* the function calls the chat service sends: the name is its choice
FunctionCalls ==
  [name : {"getWeather", "makeList", "getTime", "constructor"},
   arguments : ArgumentTexts]

\* what the client hands to the "function" handler: a name and parsed arguments
ClientFunctionCalls ==
  {[name |-> "getWeather",
    arguments |-> jsObject(<<[key |-> "city", value |-> jsString("Paris")]>>)]}

VARIABLES
  messages,            \* useState: the message list last given to setMessages
  isLoading,           \* useState: the flag last given to setIsLoading
  rendered,            \* what the closures of the last render captured
  abortControllerRef,  \* useRef: 0 (undefined) or the cycle whose controller it holds
  cycles,              \* one record per runChatCompletion call
  onFunctionCall,      \* options.onFunctionCall is given
  lastCall,            \* the last call of append / reload / stop and what it met
  nEvents,             \* number of events the clients have emitted so far
  entryPoints,         \* useState of the provider: the entry points by id
  dispatch,            \* the last call of the function call handler and its result
  schemas              \* the last result of getChatCompletionFunctionDescriptions

\* the state of useChat, and the state of the provider's registry
chatVars ==
  <<messages, isLoading, rendered, abortControllerRef, cycles, onFunctionCall,
    lastCall, nEvents>>
registryVars == <<entryPoints, dispatch, schemas>>
vars == <<chatVars, registryVars>>

CycleIds == 1..Len(cycles)

\* the promise of runChatCompletion is pending: the cycle has had no terminal event
InFlight(c) == cycles[c].promise = "pending"

CyclesInFlight == {c \in CycleIds : InFlight(c)}

\* jobs of the microtask queue: the continuation of
\* `await runChatCompletion(messages)` once that promise has settled.
\* Microtasks run before the next task (a call, a stream event, a render).
PendingJobs == {c \in CycleIds : cycles[c].turn = "awaitCycle" /\ ~InFlight(c)}

\* ---------------------------------------------------------------- Init
Init ==
  /\ messages = <<>>
  /\ isLoading = FALSE
  /\ rendered = [messages |-> <<>>, isLoading |-> FALSE, entryPoints |-> <<>>]
  /\ abortControllerRef = 0
  /\ cycles = <<>>
  /\ onFunctionCall \in BOOLEAN
  /\ lastCall = [op |-> "none", busy |-> FALSE]
  /\ nEvents = 0
  /\ entryPoints = <<>>
  /\ dispatch = [functionCall |-> undefined, implementation |-> "none",
                 result |-> [error |-> "none", invoked |-> <<>>]]
  /\ schemas = <<>>

\* ------------------------------------------------------ runChatCompletion
\* the assistant message created at cycle start
newAssistantMessage ==
  [role |-> "assistant", content |-> <<>>, function_call |-> undefined]

\* const messagesWithContext = [...(options.initialMessages || []), ...messages]
messagesWithContext(msgs) == initialMessages \o msgs

\* the Promise executor of runChatCompletion(msgs), up to client.fetch
newCycle(msgs) ==
  [messages |-> msgs,
   assistantMessage |-> newAssistantMessage,
   listening |-> TRUE,
   aborted |-> FALSE,
   promise |-> "pending",
   settleCalls |-> 0,
   request |-> messagesWithContext(msgs),
   frames |-> <<>>,
   transport |-> "open",
   turn |-> "awaitCycle",
   handler |-> rendered.entryPoints,
   handlerArgs |-> undefined]

runChatCompletion(msgs) ==
  /\ isLoading' = TRUE
  /\ abortControllerRef' = Len(cycles) + 1
  /\ messages' = Append(msgs, newAssistantMessage)
  /\ cycles' = Append(cycles, newCycle(msgs))

\* a cleanup that leaves the listeners attached
cleanupListeners_keeps(cy) == cy

\* client.off("content"); client.off("end"); client.off("error"); client.off("function")
cleanupListeners(cy) == [cy EXCEPT !.listening = FALSE]

\* a cleanup that leaves the controller in the ref
cleanupRef_keeps(ref) == ref

\* abortControllerRef.current = undefined
cleanupRef(ref) == 0

\* resolve(...) / reject(...): a promise settles with the first call only
settle(cy, outcome) ==
  [cy EXCEPT !.promise = IF @ = "pending" THEN outcome ELSE @,
             !.settleCalls = @ + 1]

\* setIsLoading(false); cleanup(); resolve / reject, for the cycle record cy of c
endCycle(c, cy, outcome) ==
  /\ isLoading' = FALSE
  /\ abortControllerRef' = cleanupRef(abortControllerRef)
  /\ cycles' = [cycles EXCEPT ![c] = settle(cleanupListeners(cy), outcome)]

\* --------------------------------------------------- append, reload, stop
\* a call from the application: which one, and whether a cycle was in flight
called(op) ==
  /\ PendingJobs = {}
  /\ lastCall' = [op |-> op, busy |-> CyclesInFlight # {}]
  /\ UNCHANGED <<rendered, onFunctionCall, nEvents>>
  /\ UNCHANGED registryVars

append(message) ==
  /\ called("append")
  /\ IF rendered.isLoading
       THEN UNCHANGED <<messages, isLoading, abortControllerRef, cycles>>
       ELSE /\ Len(cycles) < MaxCycles
            /\ runChatCompletion(Append(rendered.messages, message))

\* newMessages of reload: the rendered messages without a trailing assistant message
reloadMessages(msgs) ==
  IF msgs[Len(msgs)].role = "assistant" THEN SubSeq(msgs, 1, Len(msgs) - 1) ELSE msgs

reload ==
  /\ called("reload")
  /\ IF rendered.isLoading \/ Len(rendered.messages) = 0
       THEN UNCHANGED <<messages, isLoading, abortControllerRef, cycles>>
       ELSE /\ Len(cycles) < MaxCycles
            /\ runChatCompletion(reloadMessages(rendered.messages))

\* abortControllerRef.current?.abort(): the abort listener runs once per controller
stop ==
  /\ called("stop")
  /\ IF abortControllerRef # 0 /\ ~cycles[abortControllerRef].aborted
       THEN endCycle(abortControllerRef,
                     [cycles[abortControllerRef] EXCEPT !.aborted = TRUE,
                                                        !.transport = "closed"],
                     "AbortError")
       ELSE UNCHANGED <<isLoading, abortControllerRef, cycles>>
  /\ UNCHANGED messages

\* what a render sees: the recorded state of the hook and, for the handler that
\* getFunctionCallHandler() makes for options.onFunctionCall, the entry points
renderOf(msgs, loading, eps) ==
  [messages |-> msgs, isLoading |-> loading, entryPoints |-> ObjectValues(eps)]

\* React renders again: new closures over the recorded state
Render ==
  /\ PendingJobs = {}
  /\ rendered # renderOf(messages, isLoading, entryPoints)
  /\ rendered' = renderOf(messages, isLoading, entryPoints)
  /\ UNCHANGED <<messages, isLoading, abortControllerRef, cycles, onFunctionCall,
                 lastCall, nEvents>>
  /\ UNCHANGED registryVars

\* ------------------------------------------------------------ the stream
\* the client of cycle c emits one more event
emits(c) ==
  /\ PendingJobs = {}
  /\ nEvents < MaxEvents
  /\ nEvents' = nEvents + 1
  /\ UNCHANGED <<rendered, onFunctionCall, lastCall>>
  /\ UNCHANGED registryVars

\* an event of a client whose listeners are off reaches no handler
unheard == UNCHANGED <<cycles, messages, isLoading, abortControllerRef>>

\* the stream of the request is over (it ended or failed): nothing is open
streamOver(cy) == [cy EXCEPT !.transport = "closed"]

\* the stream of cycle c is over and no handler hears of it
unheardOver(c) ==
  /\ cycles' = [cycles EXCEPT ![c] = streamOver(@)]
  /\ UNCHANGED <<messages, isLoading, abortControllerRef>>

\* client.on("content", ...)
onContent(c, content) ==
  LET cy == cycles[c]
      am == [cy.assistantMessage EXCEPT !.content = @ \o content]
  IN /\ cycles' = [cycles EXCEPT ![c].assistantMessage = am,
                                 ![c].frames = Append(@, content)]
     /\ messages' = Append(cy.messages, am)
     /\ UNCHANGED <<isLoading, abortControllerRef>>

ClientContent ==
  \E c \in CycleIds :
    /\ emits(c)
    /\ IF cycles[c].listening
         THEN onContent(c, payload(Len(cycles[c].frames) + 1))
         ELSE unheard

\* client.on("end", ...)
onEnd(c) ==
  /\ endCycle(c, streamOver(cycles[c]), "resolved")
  /\ UNCHANGED messages

ClientEnd ==
  \E c \in CycleIds :
    /\ emits(c)
    /\ IF cycles[c].listening THEN onEnd(c) ELSE unheardOver(c)

\* client.on("error", ...)
onError(c) ==
  /\ endCycle(c, streamOver(cycles[c]), "error")
  /\ UNCHANGED messages

ClientError ==
  \E c \in CycleIds :
    /\ emits(c)
    /\ IF cycles[c].listening THEN onError(c) ELSE unheardOver(c)

\* client.on("function", ...)
onFunction(c, functionCall) ==
  LET am == [cycles[c].assistantMessage EXCEPT
               !.function_call =
                 Some([name |-> functionCall.name,
                       arguments |-> JSONstringify(functionCall.arguments)])]
  IN /\ messages' = Append(cycles[c].messages, am)
     /\ endCycle(c, [cycles[c] EXCEPT !.assistantMessage = am], "resolved")

ClientFunction ==
  \E c \in CycleIds, functionCall \in ClientFunctionCalls :
    /\ emits(c)
    /\ IF cycles[c].listening THEN onFunction(c, functionCall) ELSE unheard

\* ------------------------------- runChatCompletionAndHandleFunctionCall
\* a continuation that hands the handler the published list, assistant message
\* included
afterCompletion_published(cy) ==
  IF cy.promise # "resolved"
    THEN [cy EXCEPT !.turn = "rejected"]
  ELSE IF cy.assistantMessage.function_call # undefined /\ onFunctionCall
    THEN [cy EXCEPT !.turn = "inHandler",
                    !.handlerArgs =
                       Some([messages |-> Append(cy.messages, cy.assistantMessage),
                             functionCall |-> cy.assistantMessage.function_call[1]])]
  ELSE [cy EXCEPT !.turn = "resolved"]

\* the code after `await runChatCompletion(messages)`, for the cycle record cy
afterCompletion(cy) ==
  IF cy.promise # "resolved"
    THEN [cy EXCEPT !.turn = "rejected"]
  ELSE IF cy.assistantMessage.function_call # undefined /\ onFunctionCall
    THEN [cy EXCEPT !.turn = "inHandler",
                    !.handlerArgs =
                       Some([messages |-> cy.messages,
                             functionCall |-> cy.assistantMessage.function_call[1]])]
  ELSE [cy EXCEPT !.turn = "resolved"]

Continuation ==
  \E c \in PendingJobs :
    /\ cycles' = [cycles EXCEPT ![c] = afterCompletion(cycles[c])]
    /\ UNCHANGED <<messages, isLoading, rendered, abortControllerRef,
                   onFunctionCall, lastCall, nEvents>>
    /\ UNCHANGED registryVars

\* `await options.onFunctionCall(...)` completes: the handler returned or threw
HandlerDone ==
  \E c \in CycleIds, outcome \in {"resolved", "rejected"} :
    /\ PendingJobs = {}
    /\ cycles[c].turn = "inHandler"
    /\ cycles' = [cycles EXCEPT ![c].turn = outcome]
    /\ UNCHANGED <<messages, isLoading, rendered, abortControllerRef,
                   onFunctionCall, lastCall, nEvents>>
    /\ UNCHANGED registryVars

Next ==
  \/ \E message \in UserMessages : append(message)
  \/ reload
  \/ stop
  \/ Render
  \/ ClientContent
  \/ ClientEnd
  \/ ClientError
  \/ ClientFunction
  \/ Continuation
  \/ HandlerDone

Spec == Init /\ [][Next]_vars

\* ============================================================ the registry
\* setEntryPoint(id, entryPoint): {...prevPoints, [id]: entryPoint}
setEntryPoint(id, entryPoint) ==
  /\ entryPoints' = setProperty(entryPoints, id, entryPoint)
  /\ UNCHANGED <<dispatch, schemas>>
  /\ UNCHANGED chatVars

\* removeEntryPoint(id): a copy of prevPoints without id
removeEntryPoint(id) ==
  /\ entryPoints' = deleteProperty(entryPoints, id)
  /\ UNCHANGED <<dispatch, schemas>>
  /\ UNCHANGED chatVars

\* for (let entryPoint of entryPoints)
\*   entrypointsByFunctionName[entryPoint.name] = entryPoint
RECURSIVE entrypointsByFunctionName(_)
entrypointsByFunctionName(eps) ==
  IF eps = <<>> THEN <<>>
  ELSE LET last == eps[Len(eps)]
       IN setProperty(entrypointsByFunctionName(SubSeq(eps, 1, Len(eps) - 1)),
                      last.name, last)

\* paramsInCorrectOrder: functionCallArguments[arg.name] for each annotation
paramsInCorrectOrder(argumentAnnotations, functionCallArguments) ==
  [i \in DOMAIN argumentAnnotations |->
     getProperty(functionCallArguments, argumentAnnotations[i].name)]

returned(invoked) == [error |-> "none", invoked |-> invoked]
threw(error) == [error |-> error, invoked |-> <<>>]

\* the handler that entryPointsToFunctionCallHandler(eps) returns, applied to
\* functionCall, up to the call of the implementation: the error it throws, if
\* any, and the implementations it invokes with their positional arguments
entryPointsToFunctionCallHandler(eps, functionCall) ==
  LET entryPointFunction ==
        getProperty(jsObject(entrypointsByFunctionName(eps)), functionCall.name)
      parsed ==
        IF functionCall.arguments # <<>>
          THEN JSONparse(functionCall.arguments)
          ELSE [ok |-> TRUE, value |-> emptyArray]
      functionCallArguments == parsed.value
  IN IF ~truthy(entryPointFunction) THEN returned(<<>>)
     ELSE IF ~parsed.ok THEN threw("SyntaxError")
     \* entryPointFunction.argumentAnnotations of an inherited member is
     \* undefined, which `for ... of` cannot iterate
     ELSE IF "argumentAnnotations" \notin DOMAIN entryPointFunction
       THEN threw("TypeError")
     \* a property of null cannot be read
     ELSE IF entryPointFunction.argumentAnnotations # <<>>
             /\ functionCallArguments = jsNull
       THEN threw("TypeError")
     ELSE returned(<<[implementation |-> entryPointFunction.implementation,
                      params |-> paramsInCorrectOrder(
                                   entryPointFunction.argumentAnnotations,
                                   functionCallArguments)]>>)

\* getFunctionCallHandler()(chatMessages, functionCall)
Dispatch ==
  \E functionCall \in FunctionCalls :
    /\ dispatch' = [functionCall |-> Some(functionCall),
                    implementation |-> "none",
                    result |-> entryPointsToFunctionCallHandler(
                                 ObjectValues(entryPoints), functionCall)]
    /\ UNCHANGED <<entryPoints, schemas>>
    /\ UNCHANGED chatVars

\* let { name, required, ...forwardedArgs } = arg
forwardedArgs(arg) == [type |-> arg.type, description |-> arg.description]

\* the parameters object after the first n annotations
RECURSIVE parameters(_, _)
parameters(argumentAnnotations, n) ==
  IF n = 0 THEN <<>>
  ELSE setProperty(parameters(argumentAnnotations, n - 1),
                   argumentAnnotations[n].name,
                   forwardedArgs(argumentAnnotations[n]))

\* a required list that names every annotation
requiredParameterNames_all(argumentAnnotations, n) ==
  [i \in 1..n |-> argumentAnnotations[i].name]

\* requiredParameterNames after the first n annotations
RECURSIVE requiredParameterNames(_, _)
requiredParameterNames(argumentAnnotations, n) ==
  IF n = 0 THEN <<>>
  ELSE IF argumentAnnotations[n].required
    THEN Append(requiredParameterNames(argumentAnnotations, n - 1),
                argumentAnnotations[n].name)
  ELSE requiredParameterNames(argumentAnnotations, n - 1)

annotatedFunctionToChatCompletionFunction(annotatedFunction) ==
  LET args == annotatedFunction.argumentAnnotations
  IN [name |-> annotatedFunction.name,
      description |-> annotatedFunction.description,
      parameters |-> [type |-> "object",
                      properties |-> parameters(args, Len(args)),
                      required |-> requiredParameterNames(args, Len(args))]]

\* entryPoints.map(annotatedFunctionToChatCompletionFunction)
entryPointsToChatCompletionFunctions(eps) ==
  [i \in DOMAIN eps |-> annotatedFunctionToChatCompletionFunction(eps[i])]

\* getChatCompletionFunctionDescriptions()
Compile ==
  /\ schemas' = entryPointsToChatCompletionFunctions(ObjectValues(entryPoints))
  /\ UNCHANGED <<entryPoints, dispatch>>
  /\ UNCHANGED chatVars

RegistryNext ==
  \/ \E id \in Ids, entryPoint \in AnnotatedFunctions : setEntryPoint(id, entryPoint)
  \/ \E id \in Ids : removeEntryPoint(id)
  \/ Dispatch
  \/ Compile

RegistrySpec == Init /\ [][RegistryNext]_vars

\* ======================================== the hook with the provider's handler
\* useChat with options.onFunctionCall = getFunctionCallHandler(): the handler of
\* a turn is made from the entry points of the render whose append was called

\* what the client hands to the "function" handler here: arguments that are a
\* mapping, and arguments that are a number
ServiceFunctionCalls ==
  {[name |-> "getWeather",
    arguments |-> jsObject(<<[key |-> "city", value |-> jsString("Paris")]>>)],
   [name |-> "getWeather", arguments |-> jsNumber(7)]}

ServiceFunction ==
  \E c \in CycleIds, functionCall \in ServiceFunctionCalls :
    /\ emits(c)
    /\ IF cycles[c].listening THEN onFunction(c, functionCall) ELSE unheard

\* a handler that swallows what the implementation throws
afterImplementation_swallows(result, implementation) == result

\* the result of the handler when the implementation it awaits returns or throws
afterImplementation(result, implementation) ==
  IF result.error = "none" /\ result.invoked # <<>> /\ implementation = "throws"
    THEN [error |-> "InvocationError", invoked |-> result.invoked]
    ELSE result

\* `await options.onFunctionCall(messages, message.function_call)` with the
\* provider's handler: it throws, or awaits the implementation, which returns
\* or throws; the turn resolves or rejects with it
HandlerRuns ==
  \E c \in CycleIds, implementation \in {"returns", "throws"} :
    /\ PendingJobs = {}
    /\ cycles[c].turn = "inHandler"
    /\ LET functionCall == cycles[c].handlerArgs[1].functionCall
           result == entryPointsToFunctionCallHandler(cycles[c].handler,
                                                      functionCall)
           outcome == afterImplementation(result, implementation)
       IN /\ implementation = "throws"
               => (result.error = "none" /\ result.invoked # <<>>)
          /\ dispatch' = [functionCall |-> Some(functionCall),
                          implementation |-> implementation,
                          result |-> outcome]
          /\ cycles' = [cycles EXCEPT
                          ![c].turn = IF outcome.error = "none" THEN "resolved"
                                                                ELSE "rejected"]
    /\ UNCHANGED <<messages, isLoading, rendered, abortControllerRef,
                   onFunctionCall, lastCall, nEvents, entryPoints, schemas>>

\* the component that registers here: one id, one entry point
CopilotId == "id1"
CopilotEntryPoint ==
  CHOOSE entryPoint \in AnnotatedFunctions :
    entryPoint.implementation = "getWeather#1"

CopilotNext ==
  \/ setEntryPoint(CopilotId, CopilotEntryPoint)
  \/ removeEntryPoint(CopilotId)
  \/ \E message \in UserMessages : append(message)
  \/ Render
  \/ ServiceFunction
  \/ Continuation
  \/ HandlerRuns

CopilotInit == Init /\ onFunctionCall

CopilotSpec == CopilotInit /\ [][CopilotNext]_vars

\* ------------------------------------------------------------- claims
\* the text of a sequence of frames: their payloads one after the other
RECURSIVE Concat(_)
Concat(frames) ==
  IF frames = <<>> THEN <<>> ELSE Head(frames) \o Concat(Tail(frames))

\* this step is a call of append / reload / stop
AppendStep ==
  lastCall'.op = "append" /\ (lastCall' # lastCall \/ Len(cycles') > Len(cycles))
ReloadStep ==
  lastCall'.op = "reload" /\ (lastCall' # lastCall \/ Len(cycles') > Len(cycles))
StopStep ==
  /\ lastCall'.op = "stop"
  /\ \/ lastCall' # lastCall
     \/ \E c \in CycleIds : cycles'[c].aborted /\ ~cycles[c].aborted

\* the step leaves the conversation as it was
Untouched ==
  UNCHANGED <<messages, isLoading, rendered, abortControllerRef, cycles,
              onFunctionCall, nEvents>>

\* C1: a call of append while a cycle is in flight changes neither the message
\* sequence nor the in-flight flag and opens no request (starts no cycle).
C1_AppendInFlightIsNoop ==
  [][(AppendStep /\ CyclesInFlight # {}) =>
       (messages' = messages /\ isLoading' = isLoading /\ cycles' = cycles)]_vars

\* C2: at most one cycle is in flight, and at most one assistant message is
\* being streamed into, in every reachable state.
C2_SingleFlight ==
  /\ Cardinality(CyclesInFlight) <= 1
  /\ Cardinality({c \in CycleIds : cycles[c].listening}) <= 1

\* text a is the beginning of the longer text b
IsProperPrefix(a, b) == Len(a) < Len(b) /\ SubSeq(b, 1, Len(a)) = a

\* cycle c has its terminal event in this step
Ends(c) == InFlight(c) /\ cycles'[c].promise # "pending"

\* the assistant message of a cycle whose frames are `frames`
assistantWith(frames) ==
  [role |-> "assistant", content |-> Concat(frames), function_call |-> undefined]

\* C3: the cycle of an accepted append is over the prior history and the
\* appended message; when End ends it, the message sequence is those and one
\* assistant message whose content is the concatenation of the frame payloads in
\* arrival order, and the in-flight flag is false; every content frame publishes
\* the concatenation so far.
C3_FinalMessages ==
  [][/\ (AppendStep /\ Len(cycles') > Len(cycles))
        => \E m \in UserMessages :
             cycles'[Len(cycles')].messages = Append(messages, m)
     /\ \A c \in CycleIds :
          /\ (/\ Ends(c)
              /\ cycles'[c].promise = "resolved"
              /\ cycles'[c].assistantMessage.function_call = undefined)
             => /\ messages' = Append(cycles[c].messages,
                                      assistantWith(cycles[c].frames))
                /\ isLoading' = FALSE
          /\ (InFlight(c) /\ cycles'[c].frames # cycles[c].frames)
             => /\ messages' = Append(cycles[c].messages,
                                      assistantWith(cycles'[c].frames))
                /\ IsProperPrefix(Concat(cycles[c].frames),
                                  Concat(cycles'[c].frames))
    ]_vars

\* C4: a call of stop during a cycle ends that cycle as aborted (AbortError, not
\* a transport error), sets the in-flight flag to false and keeps the message
\* sequence with the tokens generated so far; once a stop has aborted a cycle
\* and none is in flight, no later content frame changes the message sequence.
C4_StopAborts ==
  [][/\ (StopStep /\ CyclesInFlight # {})
        => /\ \A c \in CyclesInFlight : cycles'[c].promise = "AbortError"
           /\ isLoading' = FALSE
           /\ messages' = messages
     /\ (lastCall.op = "stop" /\ lastCall.busy /\ lastCall' = lastCall)
        => messages' = messages
    ]_vars

\* C5: a call of stop while no cycle is in flight changes nothing: not the
\* message sequence, not the in-flight flag, not the ref, and no cycle's record
\* (its abort signal, its promise, its turn), so neither a settled outcome nor
\* a later cycle is affected, however often it is called.
C5_StopIdleIsNoop ==
  [][(StopStep /\ CyclesInFlight = {}) => Untouched]_vars

\* stop was called with no cycle in flight, after a cycle had its terminal event
C5_Witness ==
  /\ lastCall = [op |-> "stop", busy |-> FALSE]
  /\ \E c \in CycleIds : cycles[c].promise = "resolved"

\* C6: a call of reload is a no-op when a cycle is in flight or the message
\* sequence is empty; otherwise it starts exactly one cycle over the message
\* sequence without its trailing assistant message (unchanged when it ends
\* with another role).
C6_Reload ==
  [][ReloadStep =>
       IF CyclesInFlight # {} \/ messages = <<>>
         THEN messages' = messages /\ isLoading' = isLoading /\ cycles' = cycles
         ELSE /\ Len(cycles') = Len(cycles) + 1
              /\ cycles'[Len(cycles')].messages = reloadMessages(messages)
              /\ messages' = Append(reloadMessages(messages), newAssistantMessage)
     ]_vars

TurnSettled(cy) == cy.turn \in {"resolved", "rejected"}

HearsFunctionCall(c) ==
  /\ Ends(c)
  /\ cycles'[c].promise = "resolved"
  /\ cycles'[c].assistantMessage.function_call # undefined

\* C11: a FunctionCall event sets the function_call field of the streaming
\* assistant message (name and stringified arguments), republishes the list and
\* ends the cycle at once: the flag turns false and the listeners are off, so no
\* later frame of the cycle changes its message or the list; the handler is
\* invoked only afterwards, once, with the history without the assistant message
\* and the call descriptor.
C11_FunctionCallEndsCycle ==
  [][\A c \in CycleIds :
       /\ HearsFunctionCall(c)
          => /\ \E functionCall \in ClientFunctionCalls :
                  cycles'[c].assistantMessage =
                    [cycles[c].assistantMessage EXCEPT
                       !.function_call =
                          Some([name |-> functionCall.name,
                                arguments |-> JSONstringify(functionCall.arguments)])]
             /\ messages' = Append(cycles[c].messages, cycles'[c].assistantMessage)
             /\ isLoading' = FALSE
             /\ ~cycles'[c].listening
             /\ cycles'[c].turn = "awaitCycle"
             /\ cycles'[c].handlerArgs = undefined
       /\ ~InFlight(c)
          => /\ cycles'[c].assistantMessage = cycles[c].assistantMessage
             /\ cycles'[c].frames = cycles[c].frames
             /\ messages' # messages
                  => \E d \in 1..Len(cycles') :
                       /\ d # c
                       /\ messages' = Append(cycles'[d].messages,
                                             cycles'[d].assistantMessage)
       /\ (cycles[c].turn = "awaitCycle" /\ cycles'[c].turn # "awaitCycle"
           /\ cycles[c].promise = "resolved" /\ onFunctionCall
           /\ cycles[c].assistantMessage.function_call # undefined)
          => /\ cycles'[c].turn = "inHandler"
             /\ cycles'[c].handlerArgs =
                  Some([messages |-> cycles[c].messages,
                        functionCall |-> cycles[c].assistantMessage.function_call[1]])
       /\ cycles[c].handlerArgs # undefined
          => cycles'[c].handlerArgs = cycles[c].handlerArgs
       /\ cycles'[c].handlerArgs # cycles[c].handlerArgs
          => cycles[c].turn = "awaitCycle" /\ cycles'[c].turn = "inHandler"
    ]_vars

\* the handler of a function call is running with the history [hi] and the call
\* getWeather {"city":"Paris"}, and a frame of the cycle has arrived since
C11_Witness ==
  /\ Len(cycles) = 1
  /\ cycles[1].turn = "inHandler"
  /\ cycles[1].handlerArgs =
       Some([messages |-> <<[role |-> "user", content |-> <<"h", "i">>,
                             function_call |-> undefined]>>,
             functionCall |->
               [name |-> "getWeather",
                arguments |-> objectText(<<<<"city", "Paris">>>>)]])
  /\ Len(messages) = 2
  /\ messages[2].function_call # undefined
  /\ cycles[1].frames = <<>>
  /\ nEvents >= 2

\* C14: the controller that stop() signals (the one in abortControllerRef) is
\* the controller of the cycle in flight, whichever cycle that is, and never
\* that of a cycle that has ended; the controller of a cycle is created at its
\* start and is its own.
C14_OwnToken ==
  /\ \A c \in CyclesInFlight : abortControllerRef = c
  /\ abortControllerRef # 0 => abortControllerRef \in CyclesInFlight

\* C17: a cycle's request is the initial messages followed by the full history up
\* to and including the appended message (for reload: the history without its
\* trailing assistant message), without the empty assistant message of the
\* cycle; the published list at cycle start is that history followed by the
\* empty assistant message, and never holds an initial message.
C17_Context ==
  [][/\ Len(cycles') > Len(cycles)
        => LET cy == cycles'[Len(cycles')]
           IN /\ AppendStep => \E m \in UserMessages :
                                 cy.messages = Append(messages, m)
              /\ ReloadStep => cy.messages = reloadMessages(messages)
              /\ cy.request = initialMessages \o cy.messages
              /\ messages' = Append(cy.messages, newAssistantMessage)
     /\ \A i \in DOMAIN messages', j \in DOMAIN initialMessages :
          messages'[i] # initialMessages[j]
    ]_vars

\* C18: whenever no cycle is in flight, no transport that a cycle opened is still
\* open; in particular the transport of a cycle that a FunctionCall event ended
\* has been closed.
C18_NoOpenTransport ==
  CyclesInFlight = {} => \A c \in CycleIds : cycles[c].transport = "closed"

\* the handler of the function call of cycle c is executing
InHandler(c) == cycles[c].turn = "inHandler"

\* C20: while the handler of a finished function-call cycle is executing, the
\* cycle is over and the flag is false unless a newer cycle is in flight; with
\* the flag false a call of append (or of reload, on a non-empty list) is
\* accepted and starts a cycle, the handler still executing; stop does not
\* touch the handler's turn; and the turn settles only when the handler
\* completes, a step that changes neither the flag, the message sequence, the
\* ref nor any other cycle.
C20_DispatchOutsideFlag ==
  [][\A c \in CycleIds :
       InHandler(c) =>
         /\ ~InFlight(c)
         /\ CyclesInFlight = {} => ~isLoading
         /\ ((AppendStep \/ (ReloadStep /\ messages # <<>>)) /\ ~isLoading)
            => /\ Len(cycles') = Len(cycles) + 1
               /\ cycles'[Len(cycles')].promise = "pending"
               /\ cycles'[c] = cycles[c]
         /\ StopStep => cycles'[c] = cycles[c]
         /\ cycles'[c].turn # "inHandler"
            => /\ TurnSettled(cycles'[c])
               /\ UNCHANGED <<messages, isLoading, abortControllerRef, rendered>>
               /\ \A d \in CycleIds \ {c} : cycles'[d] = cycles[d]
    ]_vars

\* ---------------------------------------------------- claims, the registry
\* this step is a call of the function call handler with functionCall
DispatchStep(functionCall) ==
  dispatch' # dispatch /\ dispatch'.functionCall = Some(functionCall)

\* the registered entry points, in the order of Object.values
Registered == ObjectValues(entryPoints)

RegisteredNames == {Registered[i].name : i \in DOMAIN Registered}

\* the entry point a name resolves to: the last one registered under it
Resolved(name) ==
  Registered[CHOOSE i \in DOMAIN Registered :
               /\ Registered[i].name = name
               /\ \A j \in DOMAIN Registered : Registered[j].name = name => j <= i]

\* the arguments text is a name-to-value mapping (no text is the empty mapping)
IsMapping(text) ==
  text = <<>> \/ (JSONparse(text).ok /\ JSONparse(text).value.t = "object")

\* the value the payload has under a name; absent when the name is missing
PayloadValue(text, name) ==
  IF text # <<>> /\ hasOwn(JSONparse(text).value.v, name)
    THEN ownValue(JSONparse(text).value.v, name)
    ELSE jsUndefined

\* C7: a function call naming a registered entry point, with a mapping as its
\* payload, invokes that implementation exactly once and without error, with one
\* positional argument per annotation in annotation order: the payload value
\* under the annotation's name, or an absent value when the name is missing.
C7_Marshalling ==
  [][\A functionCall \in FunctionCalls :
       (/\ DispatchStep(functionCall)
        /\ functionCall.name \in RegisteredNames
        /\ IsMapping(functionCall.arguments))
       => LET entryPoint == Resolved(functionCall.name)
              args == entryPoint.argumentAnnotations
          IN dispatch'.result =
               [error |-> "none",
                invoked |->
                  <<[implementation |-> entryPoint.implementation,
                     params |-> [i \in DOMAIN args |->
                                   PayloadValue(functionCall.arguments,
                                                args[i].name)]]>>]
    ]_vars

\* C8: a function call naming no registered entry point completes without error
\* and invokes no implementation, whatever its arguments text is.
C8_Unregistered ==
  [][\A functionCall \in FunctionCalls :
       (DispatchStep(functionCall) /\ functionCall.name \notin RegisteredNames)
       => dispatch'.result = [error |-> "none", invoked |-> <<>>]
    ]_vars

\* schema is the compiled schema of annotatedFunction, as the contract has it
IsSchemaOf(schema, annotatedFunction) ==
  LET args == annotatedFunction.argumentAnnotations
      properties == schema.parameters.properties
      isRequired(arg) == arg.required
      required == SelectSeq(args, isRequired)
  IN /\ schema.name = annotatedFunction.name
     /\ schema.description = annotatedFunction.description
     /\ {properties[i].key : i \in DOMAIN properties} =
          {args[i].name : i \in DOMAIN args}
     /\ Len(properties) = Cardinality({args[i].name : i \in DOMAIN args})
     /\ \A i \in DOMAIN args :
          /\ hasOwn(properties, args[i].name)
          /\ ownValue(properties, args[i].name) =
               [type |-> args[i].type, description |-> args[i].description]
     /\ schema.parameters.required =
          [i \in DOMAIN required |-> required[i].name]

C15_UniqueNames ==
  \A i, j \in DOMAIN Registered :
    Registered[i].name = Registered[j].name => i = j

RegisteredIds == {entryPoints[i].key : i \in DOMAIN entryPoints}

HandlerStep(c) == InHandler(c) /\ cycles'[c].turn # "inHandler"

\* C12 as stated: when the implementation fails, the turn rejects, the assistant
\* message with the function call is in the message sequence and the flag is
\* false.
C12_FailureLeavesIdle ==
  [][\A c \in CycleIds :
       (HandlerStep(c) /\ dispatch'.implementation = "throws")
       => /\ cycles'[c].turn = "rejected"
          /\ \E i \in DOMAIN messages' : messages'[i] = cycles[c].assistantMessage
          /\ isLoading' = FALSE
    ]_vars

\* C12, amended: when the implementation fails, the handler fails with it and
\* the turn rejects (a turn resolves only when nothing failed); that step
\* changes neither the message sequence, the flag, the ref nor any cycle's
\* messages; when no other cycle has been started, the sequence still ends with
\* the assistant message carrying the call and the flag is false.
C12_FailurePropagates ==
  [][\A c \in CycleIds :
       HandlerStep(c)
       => /\ dispatch'.implementation = "throws"
             => /\ dispatch'.result.error = "InvocationError"
                /\ cycles'[c].turn = "rejected"
          /\ cycles'[c].turn = "resolved" <=> dispatch'.result.error = "none"
          /\ UNCHANGED <<messages, isLoading, abortControllerRef>>
          /\ \A d \in CycleIds :
               cycles'[d].assistantMessage = cycles[d].assistantMessage
          /\ Len(cycles) = 1
             => /\ messages' = Append(cycles[c].messages, cycles[c].assistantMessage)
                /\ cycles[c].assistantMessage.function_call # undefined
                /\ isLoading' = FALSE
    ]_vars

\* the implementation of getWeather threw and the turn rejected, while a newer
\* cycle was in flight
C12_Witness ==
  /\ Len(cycles) = 2
  /\ cycles[1].turn = "rejected"
  /\ cycles[1].promise = "resolved"
  /\ dispatch.implementation = "throws"
  /\ dispatch.result.error = "InvocationError"
  /\ InFlight(2)
  /\ isLoading

\* C13: when the call of a registered entry point carries arguments that are
\* not a name-to-value mapping, the handler fails and the turn rejects, no
\* implementation is invoked, the cycle has ended (the flag is false when none
\* is in flight) and its assistant message keeps the call as received.
C13_BadArgumentsReported ==
  [][\A c \in CycleIds :
       (/\ HandlerStep(c)
        /\ \E i \in DOMAIN cycles[c].handler :
             cycles[c].handler[i].name = cycles[c].handlerArgs[1].functionCall.name
        /\ ~IsMapping(cycles[c].handlerArgs[1].functionCall.arguments))
       => /\ dispatch'.result.error # "none"
          /\ dispatch'.result.invoked = <<>>
          /\ cycles'[c].turn = "rejected"
          /\ ~InFlight(c)
          /\ CyclesInFlight' = {} => isLoading' = FALSE
          /\ cycles'[c].assistantMessage.function_call =
               Some(cycles[c].handlerArgs[1].functionCall)
    ]_vars

\* C16: when the handler of a turn runs for a function call whose name no
\* registered entry point has at that time (it was unregistered while the cycle
\* was in flight), nothing is invoked and the turn resolves without error.
C16_LookupAtDispatchTime ==
  [][\A c \in CycleIds :
       (/\ HandlerStep(c)
        /\ cycles[c].handlerArgs[1].functionCall.name \notin RegisteredNames)
       => /\ dispatch'.result = [error |-> "none", invoked |-> <<>>]
          /\ cycles'[c].turn = "resolved"
    ]_vars

====
